---- MODULE Spec2Model ----
(***************************************************************************)
(* Model of the MCP chat client (scripts/mcp-client.js): the session       *)
(* client McpChatClient (connect / ask / close / product filter), the      *)
(* transport fallback connectWithFallback and the argument merge of ask.   *)
(*                                                                         *)
(* JavaScript strings are sequences of one-character strings; undefined    *)
(* and null are the marker values Undefined and Null.  Every await of the  *)
(* source is a point where an async function is suspended: the function    *)
(* is one action up to each await.                                         *)
(***************************************************************************)
EXTENDS Integers, Sequences, FiniteSets, Bags, TLC

\* ------------------------------------------------------------------ bounds
\* Attempt sequences (#connectInternal invocations) one client may start.
MaxSeq == 2
\* Calls of the client's methods that may be suspended at the same time.
NumCallers == 2
\* Method calls (connect, ask, close) made on the client in one behaviour.
MaxCalls == 4
\* The two transports of buildTransportAttempts (streamable-http, sse).
NumTransports == 2

\* ------------------------------------------------------------ JS values
Undefined == <<"#undefined">>
Null == <<"#null">>

\* Boolean(v) of JavaScript for the values used here.
Truthy(v) == v \notin {Undefined, Null, <<>>}

IsSpace(ch) == ch \in {" ", "\t", "\n"}

RECURSIVE TrimStart(_)
TrimStart(s) ==
    IF s = <<>> THEN <<>>
    ELSE IF IsSpace(Head(s)) THEN TrimStart(Tail(s)) ELSE s

RECURSIVE TrimEnd(_)
TrimEnd(s) ==
    IF s = <<>> THEN <<>>
    ELSE IF IsSpace(s[Len(s)]) THEN TrimEnd(SubSeq(s, 1, Len(s) - 1)) ELSE s

\* String.prototype.trim
TrimIdentity(s) == s
Trim(s) == TrimEnd(TrimStart(s))

\* question?.trim()
OptTrim(q) == IF q \in {Undefined, Null} THEN Undefined ELSE Trim(q)

\* ------------------------------------------------------------- errors
NoError == "none"
ErrMissingKey == "Missing API key"
ErrAllFailed == "All transports failed to connect."
ErrToolMissing == "Tool is not exposed by the MCP server."
ErrListTools == "listTools failed"
ErrEmptyQuestion == "Question cannot be empty."
ErrNotConnected == "Client is not connected."
ErrCallTool == "callTool failed"
ErrNoAttempts == "No transport attempts configured."
FactoryError(k) == IF k = 1 THEN "transport factory 1 threw" ELSE "transport factory 2 threw"
ConnectError(k) == IF k = 1 THEN "transport 1 failed to connect" ELSE "transport 2 failed to connect"
Ok == "ok"

\* ------------------------------------------------- transport selector
LabelStreamable == "streamable-http"
LabelSse == "sse"

\* buildTransportAttempts: the ordered attempt list of a preference.
BuildAttemptsSseFirst(pref) ==
    LET norm == IF pref \in {"sse", "streamable"} THEN pref ELSE "auto"
    IN  (IF norm \in {"sse", "auto"} THEN <<[label |-> LabelSse]>> ELSE <<>>)
        \o (IF norm \in {"streamable", "auto"} THEN <<[label |-> LabelStreamable]>> ELSE <<>>)
buildTransportAttempts(pref) ==
    LET norm == IF pref \in {"sse", "streamable"} THEN pref ELSE "auto"
    IN  (IF norm \in {"streamable", "auto"} THEN <<[label |-> LabelStreamable]>> ELSE <<>>)
        \o (IF norm \in {"sse", "auto"} THEN <<[label |-> LabelSse]>> ELSE <<>>)

\* throw lastError ?? new Error('All transports failed to connect.')
LastErrorGeneric(e) == ErrAllFailed
LastErrorOrDefault(e) == IF e = NoError THEN ErrAllFailed ELSE e

\* .catch(() => {}) after a teardown close: the close's failure is dropped.
SwallowTeardown(r) == Ok

\* ------------------------------------------------ tools and schemas
DEFAULT_TOOL_NAME == "ask_cisco_documentation"
NoSchema == [type |-> "#undefined", props |-> <<>>]
NoTool == [name |-> "#undefined", inputSchema |-> NoSchema]

HasProp(props, key) == \E i \in 1..Len(props) : props[i].name = key

\* entries.filter((key) => props[key]?.type === 'string')
RECURSIVE StringOnly(_)
StringOnly(props) ==
    IF props = <<>> THEN <<>>
    ELSE (IF Head(props).type = "string" THEN <<Head(props).name>> ELSE <<>>)
         \o StringOnly(Tail(props))

\* pickPrimaryArgument: NoKey (null) when no key can be inferred.
NoKey == "#null"
PickQuestionFirst(schema) ==
    IF schema.type # "object" THEN NoKey
    ELSE IF HasProp(schema.props, "question") THEN "question"
    ELSE IF HasProp(schema.props, "query") THEN "query"
    ELSE IF Len(schema.props) = 1 THEN schema.props[1].name
    ELSE IF Len(StringOnly(schema.props)) = 1 THEN StringOnly(schema.props)[1]
    ELSE NoKey
pickPrimaryArgument(schema) ==
    IF schema = NoSchema \/ schema.type # "object" THEN NoKey
    ELSE IF HasProp(schema.props, "query") THEN "query"
    ELSE IF HasProp(schema.props, "question") THEN "question"
    ELSE IF Len(schema.props) = 1 THEN schema.props[1].name
    ELSE IF Len(StringOnly(schema.props)) = 1 THEN StringOnly(schema.props)[1]
    ELSE NoKey

\* tools.find((tool) => tool.name === this.toolName)
RECURSIVE FindTool(_, _)
FindTool(tools, name) ==
    IF tools = <<>> THEN NoTool
    ELSE IF Head(tools).name = name THEN Head(tools) ELSE FindTool(Tail(tools), name)

SchemaQuestion ==
    [type |-> "object",
     props |-> <<[name |-> "question", type |-> "string"], [name |-> "limit", type |-> "number"]>>]
SchemaAmbiguous ==
    [type |-> "object",
     props |-> <<[name |-> "a", type |-> "number"], [name |-> "b", type |-> "number"]>>]
OtherTool == [name |-> "search", inputSchema |-> SchemaQuestion]

\* What listTools() may answer in the session model: the configured tool is
\* absent, or present after another tool.
ToolLists ==
    { <<OtherTool>>,
      <<OtherTool, [name |-> DEFAULT_TOOL_NAME, inputSchema |-> SchemaQuestion]>> }

\* ------------------------------------------------- ask's arguments
NoArgs == [k \in {} |-> <<>>]

\* { ...a, ...b }
Spread(a, b) ==
    [k \in (DOMAIN a) \cup (DOMAIN b) |-> IF k \in DOMAIN b THEN b[k] ELSE a[k]]

\* args[key] = value
SetKey(a, key, value) ==
    [k \in (DOMAIN a) \cup {key} |-> IF k = key THEN value ELSE a[k]]

\* args.product (undefined when absent)
GetKey(a, key) == IF key \in DOMAIN a THEN a[key] ELSE Undefined

\* The arguments ask() passes to callTool (mcp-client.js 358-362).
BuildArgsPresence(static, overrides, key, trimmed, filter) ==
    LET merged == SetKey(Spread(static, overrides), key, trimmed)
    IN  IF Truthy(filter) /\ "product" \notin DOMAIN merged
        THEN SetKey(merged, "product", filter)
        ELSE merged
BuildArgs(static, overrides, key, trimmed, filter) ==
    LET merged == SetKey(Spread(static, overrides), key, trimmed)
    IN  IF Truthy(filter) /\ ~Truthy(GetKey(merged, "product"))
        THEN SetKey(merged, "product", filter)
        ELSE merged

\* ------------------------------------------------------------- state
VARIABLES
    apiKey,               \* this.apiKey is set (configuration)
    transportPreference,  \* this.transportPreference
    staticArgs,           \* this.staticArgs
    productFilter,        \* this.productFilter: Null or a trimmed string
    client,               \* this.client: 0 (undefined) or a handle
    transport,            \* this.transport: 0 (undefined) or a handle
    connectionLabel,      \* this.connectionLabel ("" when unset)
    primaryArgKey,        \* this.primaryArgKey
    selectedTool,         \* this.selectedTool (NoTool when undefined)
    connectPromise,       \* this.connectPromise: 0 (null) or an attempt sequence
    seqs,                 \* the #connectInternal invocations, in start order
    factoryInvoked,       \* handles whose attempt.create() has been called
    attemptFailed,        \* the failed attempts: [h, error]
    attemptConnected,     \* handles whose client connected
    clientCloseCalled,    \* handles whose client had close() invoked
    transportCloseCalled, \* handles whose transport had close() invoked
    pending,              \* the bag of calls suspended at an await
    returned,             \* the call that returned in the last step, if one did
    calls,                \* the number of method calls made so far
    targets,              \* ChatTargetManager: this.targets
    clients,              \* ChatTargetManager: this.clients (name -> instance)
    defaultTargetName,    \* ChatTargetManager: this.defaultTargetName
    instances,            \* the McpChatClient instances the registry has built
    closing,              \* the close() calls on instances suspended at an await
    closeAllPc,           \* closeAll(): "idle", or "waiting" at its await
    regReturned,          \* the registry call that returned in the last step
    exited,               \* the front end's process has called process.exit
    activeTarget,         \* CLI: activeTarget
    cliPc,                \* CLI: where interactiveLoop() is
    sigintPc,             \* the SIGINT handler: "none", or "waiting" for closeAll()
    cliProduct,           \* HTTP server: cliOptions.product
    requests,             \* HTTP server: the handleAsk calls suspended at an await
    output                \* what the front end emitted in the last step

config == <<apiKey, transportPreference, staticArgs>>
session == <<client, transport, connectionLabel, primaryArgKey, selectedTool, connectPromise>>
history == <<factoryInvoked, attemptFailed, attemptConnected, clientCloseCalled,
             transportCloseCalled>>
registry == <<targets, clients, defaultTargetName, instances, closing, closeAllPc, regReturned>>
frontEnd == <<exited, activeTarget, cliPc, sigintPc, cliProduct, requests, output>>
vars == <<config, productFilter, session, seqs, history, pending, returned, calls, registry, frontEnd>>

\* The handle (client and transport pair) built by attempt k of sequence s.
HandleOf(s, k) == (s - 1) * NumTransports + k
SeqOfHandle(h) == ((h - 1) \div NumTransports) + 1
AttemptOfHandle(h) == ((h - 1) % NumTransports) + 1

Attempts == buildTransportAttempts(transportPreference)

Failure(h, error) == [h |-> h, error |-> error]
FailedHandles == {f.h : f \in attemptFailed}

Running(s) == seqs[s].pc \in {"connecting", "closingClient", "closingTransport", "failed", "listing"}
Settled(s) == seqs[s].pc \in {"fulfilled", "rejected"}
RunningSeqs == {s \in 1..Len(seqs) : Running(s)}

\* isConnected()
isConnected == client # 0
\* getConnectionLabel()
getConnectionLabel == connectionLabel
\* getProductFilter()
getProductFilter == productFilter

\* A call suspended at an await: where, the promise it awaits, the attempt
\* sequence that was in flight when it was made, and ask()'s locals.
NewCall == [pc |-> "new", awaiting |-> 0, joined |-> 0, trimmed |-> <<>>,
            overrides |-> NoArgs, args |-> NoArgs]

Suspend(bag, rec) == bag (+) SetToBag({rec})
Resume(bag, rec) == bag (-) SetToBag({rec})
Suspended == BagToSet(pending)
CanCall == BagCardinality(pending) < NumCallers /\ calls < MaxCalls

\* No call returned in the last step.
NoReturn == [op |-> "none", joined |-> 0, invoked |-> 0, result |-> NoError]
Return(op, joined, invoked, result) ==
    [op |-> op, joined |-> joined, invoked |-> invoked, result |-> result]

\* value?.trim() ? value.trim() : null  (and initialProduct.trim() || null)
NormalizeFilterUntrimmed(value) == IF Truthy(OptTrim(value)) THEN value ELSE Null
NormalizeFilter(value) == IF Truthy(OptTrim(value)) THEN Trim(value) ELSE Null

\* No front end is running: the client or the registry is used as a library.
NoOutput == [kind |-> "none"]
NoFrontEnd ==
    /\ exited = FALSE
    /\ activeTarget = Undefined
    /\ cliPc = "none"
    /\ sigintPc = "none"
    /\ cliProduct = Undefined
    /\ requests = EmptyBag
    /\ output = NoOutput

\* No ChatTargetManager has been constructed.
NoRegistry ==
    /\ targets = <<>>
    /\ clients = <<>>
    /\ defaultTargetName = Undefined
    /\ instances = <<>>
    /\ closing = EmptyBag
    /\ closeAllPc = "idle"
    /\ regReturned = [op |-> "none"]
    /\ NoFrontEnd

Preferences == {"auto", "sse"}
Questions == {Undefined, <<>>, <<" ">>, <<" ", "q">>}

\* new McpChatClient(options)
Disconnected ==
    /\ client = 0
    /\ transport = 0
    /\ connectionLabel = ""
    /\ primaryArgKey = "query"
    /\ selectedTool = NoTool
    /\ connectPromise = 0

Init ==
    /\ apiKey \in BOOLEAN
    /\ transportPreference \in Preferences
    /\ staticArgs = NoArgs
    /\ productFilter = NormalizeFilter(<<>>)
    /\ Disconnected
    /\ seqs = <<>>
    /\ factoryInvoked = {}
    /\ attemptFailed = {}
    /\ attemptConnected = {}
    /\ clientCloseCalled = {}
    /\ transportCloseCalled = {}
    /\ pending = EmptyBag
    /\ returned = NoReturn
    /\ calls = 0
    /\ NoRegistry

\* ------------------------------------------- connectWithFallback steps
\* One loop iteration up to its await: new Client(), attempt.create() (outside
\* the try block, so a throwing factory rejects connectWithFallback at once)
\* and candidateClient.connect(candidateTransport).
BeginIteration(rec, k, throws) ==
    IF throws
    THEN [rec EXCEPT !.pc = "failed", !.k = k, !.thrown = FactoryError(k)]
    ELSE [rec EXCEPT !.pc = "connecting", !.k = k]

NewSeq == [pc |-> "new", k |-> 0, lastError |-> NoError, thrown |-> NoError, outcome |-> NoError]

\* The promise of a #connectInternal invocation once settled (its locals are gone).
Fulfilled == [NewSeq EXCEPT !.pc = "fulfilled", !.outcome = Ok]
Rejected(error) == [NewSeq EXCEPT !.pc = "rejected", !.outcome = error]

\* #connectInternal up to its first await (or to its synchronous throw).
FirstStep(throws) ==
    IF ~apiKey
    THEN Rejected(ErrMissingKey)
    ELSE IF Attempts = <<>>
    THEN [NewSeq EXCEPT !.pc = "failed", !.thrown = ErrNoAttempts]
    ELSE BeginIteration(NewSeq, 1, throws)

\* if (!this.connectPromise) in connect()
NoGuard == TRUE
ShouldStart == connectPromise = 0

InFlightSeq == IF RunningSeqs = {} THEN 0 ELSE CHOOSE s \in RunningSeqs : \A t \in RunningSeqs : t <= s

\* connect() when this.client is undefined: start #connectInternal unless a
\* promise is stored, then await the stored promise.  rec is the call's
\* record while it waits.
EnterConnect(throws, rec) ==
    IF ShouldStart
    THEN LET s == Len(seqs) + 1
             first == FirstStep(throws)
             h == HandleOf(s, 1)
         IN  /\ Len(seqs) < MaxSeq
             /\ seqs' = Append(seqs, first)
             /\ connectPromise' = s
             /\ factoryInvoked' = IF first.k = 1 THEN factoryInvoked \cup {h} ELSE factoryInvoked
             /\ attemptFailed' = IF first.k = 1 /\ throws
                                 THEN attemptFailed \cup {Failure(h, FactoryError(1))}
                                 ELSE attemptFailed
             /\ pending' = Suspend(pending, [rec EXCEPT !.awaiting = s, !.joined = s])
             /\ UNCHANGED <<config, productFilter, client, transport, connectionLabel,
                            primaryArgKey, selectedTool, attemptConnected,
                            clientCloseCalled, transportCloseCalled>>
    ELSE /\ pending' = Suspend(pending, [rec EXCEPT !.awaiting = connectPromise,
                                                    !.joined = InFlightSeq])
         /\ UNCHANGED <<config, productFilter, session, seqs, history>>

\* connect()
ConnectCall ==
    /\ CanCall
    /\ calls' = calls + 1
    /\ UNCHANGED <<registry, frontEnd>>
    /\ IF client # 0
       THEN /\ returned' = Return("connect", InFlightSeq, 0, Ok)
            /\ UNCHANGED <<config, productFilter, session, seqs, history, pending>>
       ELSE /\ \E throws \in BOOLEAN :
                 EnterConnect(throws, [NewCall EXCEPT !.pc = "connectWait"])
            /\ returned' = NoReturn

\* await this.connectPromise in connect() resumes: the promise's outcome.
ConnectSettled(p) ==
    /\ p.pc = "connectWait"
    /\ Settled(p.awaiting)
    /\ pending' = Resume(pending, p)
    /\ returned' = Return("connect", p.joined, 0, seqs[p.awaiting].outcome)
    /\ UNCHANGED <<config, productFilter, session, seqs, history>>
    /\ UNCHANGED <<calls, registry, frontEnd>>

\* await candidateClient.connect(candidateTransport) resolves:
\* connectWithFallback returns and #connectInternal stores the connection
\* and calls this.client.listTools().
TransportConnected(s) ==
    /\ seqs[s].pc = "connecting"
    /\ client' = HandleOf(s, seqs[s].k)
    /\ transport' = HandleOf(s, seqs[s].k)
    /\ connectionLabel' = Attempts[seqs[s].k].label
    /\ seqs' = [seqs EXCEPT ![s].pc = "listing"]
    /\ attemptConnected' = attemptConnected \cup {HandleOf(s, seqs[s].k)}
    /\ returned' = NoReturn
    /\ UNCHANGED <<config, productFilter, primaryArgKey, selectedTool, connectPromise,
                   factoryInvoked, attemptFailed, clientCloseCalled, transportCloseCalled,
                   pending>>
    /\ UNCHANGED <<calls, registry, frontEnd>>

\* await candidateClient.connect(...) rejects: the catch block records the
\* error and invokes candidateClient.close().
TransportFailedNoTeardown(s) ==
    /\ seqs[s].pc = "connecting"
    /\ seqs' = [seqs EXCEPT ![s].pc = "closingTransport", ![s].lastError = ConnectError(seqs[s].k)]
    /\ attemptFailed' = attemptFailed \cup {Failure(HandleOf(s, seqs[s].k), ConnectError(seqs[s].k))}
    /\ returned' = NoReturn
    /\ UNCHANGED <<config, productFilter, session, factoryInvoked, attemptConnected,
                   clientCloseCalled, transportCloseCalled, pending, calls, registry, frontEnd>>
TransportFailed(s) ==
    /\ seqs[s].pc = "connecting"
    /\ seqs' = [seqs EXCEPT ![s].pc = "closingClient", ![s].lastError = ConnectError(seqs[s].k)]
    /\ attemptFailed' = attemptFailed \cup {Failure(HandleOf(s, seqs[s].k), ConnectError(seqs[s].k))}
    /\ clientCloseCalled' = clientCloseCalled \cup {HandleOf(s, seqs[s].k)}
    /\ returned' = NoReturn
    /\ UNCHANGED <<config, productFilter, session, factoryInvoked, attemptConnected,
                   transportCloseCalled, pending>>
    /\ UNCHANGED <<calls, registry, frontEnd>>

TeardownResults == {Ok, "close failed"}

\* await candidateClient.close?.().catch(() => {}) settles; then
\* candidateTransport.close() is invoked.
TeardownClientDone(s) ==
    /\ seqs[s].pc = "closingClient"
    /\ \E r \in TeardownResults :
        IF SwallowTeardown(r) = Ok
        THEN /\ seqs' = [seqs EXCEPT ![s].pc = "closingTransport"]
             /\ transportCloseCalled' = transportCloseCalled \cup {HandleOf(s, seqs[s].k)}
        ELSE /\ seqs' = [seqs EXCEPT ![s].pc = "failed", ![s].thrown = r]
             /\ UNCHANGED transportCloseCalled
    /\ returned' = NoReturn
    /\ UNCHANGED <<config, productFilter, session, factoryInvoked, attemptFailed,
                   attemptConnected, clientCloseCalled, pending>>
    /\ UNCHANGED <<calls, registry, frontEnd>>

\* await candidateTransport.close?.().catch(() => {}) settles: the loop goes
\* on to the next attempt, or ends and throws lastError.
TeardownTransportDone(s) ==
    /\ seqs[s].pc = "closingTransport"
    /\ \E r \in TeardownResults, throws \in BOOLEAN :
        LET k == seqs[s].k
            next == BeginIteration(seqs[s], k + 1, throws)
            h == HandleOf(s, k + 1)
        IN  IF SwallowTeardown(r) # Ok
            THEN /\ seqs' = [seqs EXCEPT ![s].pc = "failed", ![s].thrown = r]
                 /\ UNCHANGED history
            ELSE IF k < Len(Attempts)
            THEN /\ seqs' = [seqs EXCEPT ![s] = next]
                 /\ factoryInvoked' = factoryInvoked \cup {h}
                 /\ attemptFailed' = IF throws
                                     THEN attemptFailed \cup {Failure(h, FactoryError(k + 1))}
                                     ELSE attemptFailed
                 /\ UNCHANGED <<attemptConnected, clientCloseCalled, transportCloseCalled>>
            ELSE /\ seqs' = [seqs EXCEPT ![s].pc = "failed",
                                          ![s].thrown = LastErrorOrDefault(seqs[s].lastError)]
                 /\ UNCHANGED history
    /\ returned' = NoReturn
    /\ UNCHANGED <<config, productFilter, session, pending>>
    /\ UNCHANGED <<calls, registry, frontEnd>>

\* await connectWithFallback(...) rejects in #connectInternal: the finally
\* block clears connectPromise and the promise rejects with the error.
SequenceRejected(s) ==
    /\ seqs[s].pc = "failed"
    /\ seqs' = [seqs EXCEPT ![s] = Rejected(seqs[s].thrown)]
    /\ connectPromise' = 0
    /\ returned' = NoReturn
    /\ UNCHANGED <<config, productFilter, client, transport, connectionLabel, primaryArgKey,
                   selectedTool, history, pending>>
    /\ UNCHANGED <<calls, registry, frontEnd>>

\* await this.client.listTools() resolves: tool lookup, primary-argument
\* inference, finally.
ToolsListedFrom(s, lists) ==
    /\ seqs[s].pc = "listing"
    /\ \E tools \in lists :
        LET found == FindTool(tools, DEFAULT_TOOL_NAME)
            key == pickPrimaryArgument(found.inputSchema)
        IN  /\ selectedTool' = found
            /\ IF found = NoTool
               THEN /\ seqs' = [seqs EXCEPT ![s] = Rejected(ErrToolMissing)]
                    /\ UNCHANGED primaryArgKey
               ELSE /\ seqs' = [seqs EXCEPT ![s] = Fulfilled]
                    /\ primaryArgKey' = IF key = NoKey THEN primaryArgKey ELSE key
    /\ connectPromise' = 0
    /\ returned' = NoReturn
    /\ UNCHANGED <<config, productFilter, client, transport, connectionLabel, history, pending>>
    /\ UNCHANGED <<calls, registry, frontEnd>>

ToolsListed(s) == ToolsListedFrom(s, ToolLists)

\* await this.client.listTools() rejects: finally, and the error propagates.
ListToolsFailed(s) ==
    /\ seqs[s].pc = "listing"
    /\ seqs' = [seqs EXCEPT ![s] = Rejected(ErrListTools)]
    /\ connectPromise' = 0
    /\ returned' = NoReturn
    /\ UNCHANGED <<config, productFilter, client, transport, connectionLabel, primaryArgKey,
                   selectedTool, history, pending>>
    /\ UNCHANGED <<calls, registry, frontEnd>>

\* ------------------------------------------------------------- ask()
\* Lines 355-367 of ask(): the connected check, the argument merge and
\* this.client.callTool(...).  others are the other suspended calls.
AskInvoke(others, rec) ==
    IF client = 0 \/ selectedTool = NoTool
    THEN /\ pending' = others
         /\ returned' = Return("ask", rec.joined, 0, ErrNotConnected)
    ELSE /\ pending' = Suspend(others,
                            [rec EXCEPT !.pc = "callTool", !.awaiting = 0,
                                        !.args = BuildArgs(staticArgs, rec.overrides, primaryArgKey,
                                                           rec.trimmed, productFilter)])
         /\ returned' = NoReturn

\* ask(question, argOverrides) up to its first await.
AskCallWith(question, overrides) ==
    /\ CanCall
    /\ calls' = calls + 1
    /\ UNCHANGED <<registry, frontEnd>>
    /\ LET trimmed == OptTrim(question)
           rec == [NewCall EXCEPT !.trimmed = trimmed, !.overrides = overrides,
                                  !.joined = InFlightSeq]
       IN  IF ~Truthy(trimmed)
           THEN /\ returned' = Return("ask", InFlightSeq, 0, ErrEmptyQuestion)
                /\ UNCHANGED <<config, productFilter, session, seqs, history, pending>>
           ELSE IF client = 0
           THEN /\ \E throws \in BOOLEAN : EnterConnect(throws, [rec EXCEPT !.pc = "askWait"])
                /\ returned' = NoReturn
           ELSE /\ AskInvoke(pending, rec)
                /\ UNCHANGED <<config, productFilter, session, seqs, history>>

\* await this.connect() in ask() settles: a rejection propagates, otherwise
\* ask() goes on to the connected check and the tool call.
AskResumed(p) ==
    /\ p.pc = "askWait"
    /\ Settled(p.awaiting)
    /\ IF seqs[p.awaiting].outcome # Ok
       THEN /\ pending' = Resume(pending, p)
            /\ returned' = Return("ask", p.joined, 0, seqs[p.awaiting].outcome)
       ELSE AskInvoke(Resume(pending, p), p)
    /\ UNCHANGED <<config, productFilter, session, seqs, history>>
    /\ UNCHANGED <<calls, registry, frontEnd>>

\* The promise of this.client.callTool(...) settles; ask() returns it as is.
ToolCallDone(p) ==
    /\ p.pc = "callTool"
    /\ \E r \in {Ok, ErrCallTool} :
        returned' = Return("ask", p.joined, 1, r)
    /\ pending' = Resume(pending, p)
    /\ UNCHANGED <<config, productFilter, session, seqs, history>>
    /\ UNCHANGED <<calls, registry, frontEnd>>

\* ----------------------------------------------------------- close()
\* Lines 385-388: the fields close() resets, and its return.
CloseReset(others) ==
    /\ client' = 0
    /\ transport' = 0
    /\ selectedTool' = NoTool
    /\ connectionLabel' = ""
    /\ pending' = others
    /\ returned' = Return("close", 0, 0, Ok)

\* close() up to its first await (to its end when nothing is connected).
CloseCall ==
    /\ CanCall
    /\ calls' = calls + 1
    /\ UNCHANGED <<registry, frontEnd>>
    /\ IF client # 0
       THEN /\ clientCloseCalled' = clientCloseCalled \cup {client}
            /\ pending' = Suspend(pending, [NewCall EXCEPT !.pc = "closeClient"])
            /\ returned' = NoReturn
            /\ UNCHANGED <<client, transport, selectedTool, connectionLabel, transportCloseCalled>>
       ELSE IF transport # 0
       THEN /\ transportCloseCalled' = transportCloseCalled \cup {transport}
            /\ pending' = Suspend(pending, [NewCall EXCEPT !.pc = "closeTransport"])
            /\ returned' = NoReturn
            /\ UNCHANGED <<client, transport, selectedTool, connectionLabel, clientCloseCalled>>
       ELSE /\ CloseReset(pending)
            /\ UNCHANGED <<clientCloseCalled, transportCloseCalled>>
    /\ UNCHANGED <<config, productFilter, primaryArgKey, connectPromise, seqs,
                   factoryInvoked, attemptFailed, attemptConnected>>

\* catch (_) { /* ignore shutdown errors */ } around each close in close()
RethrowShutdownError(r) == r
IgnoreShutdownError(r) == Ok

\* close() rejecting with a shutdown error (no field is reset).
CloseRejected(others, error) ==
    /\ pending' = others
    /\ returned' = Return("close", 0, 0, error)
    /\ UNCHANGED <<client, transport, selectedTool, connectionLabel>>

\* await this.client.close() settles (a rejection is caught and dropped);
\* then the transport, read from this.transport now, is closed.
CloseClientDone(p) ==
    /\ p.pc = "closeClient"
    /\ \E r \in TeardownResults :
        IF IgnoreShutdownError(r) # Ok
        THEN /\ CloseRejected(Resume(pending, p), r)
             /\ UNCHANGED transportCloseCalled
        ELSE IF transport # 0
        THEN /\ transportCloseCalled' = transportCloseCalled \cup {transport}
             /\ pending' = Suspend(Resume(pending, p), [p EXCEPT !.pc = "closeTransport"])
             /\ returned' = NoReturn
             /\ UNCHANGED <<client, transport, selectedTool, connectionLabel>>
        ELSE /\ CloseReset(Resume(pending, p))
             /\ UNCHANGED transportCloseCalled
    /\ UNCHANGED <<config, productFilter, primaryArgKey, connectPromise, seqs,
                   factoryInvoked, attemptFailed, attemptConnected, clientCloseCalled>>
    /\ UNCHANGED <<calls, registry, frontEnd>>

\* await this.transport.close() settles (a rejection is caught and dropped).
CloseTransportDone(p) ==
    /\ p.pc = "closeTransport"
    /\ \E r \in TeardownResults :
        IF IgnoreShutdownError(r) # Ok
        THEN CloseRejected(Resume(pending, p), r)
        ELSE CloseReset(Resume(pending, p))
    /\ UNCHANGED <<config, productFilter, primaryArgKey, connectPromise, seqs, history>>
    /\ UNCHANGED <<calls, registry, frontEnd>>

\* -------------------------------------------------- setProductFilter()
setProductFilter(value) ==
    /\ productFilter' = NormalizeFilter(value)
    /\ returned' = NoReturn
    /\ UNCHANGED <<config, session, seqs, history, pending>>
    /\ UNCHANGED <<calls, registry, frontEnd>>

\* ------------------------------------------------------ specification
\* The session client under concurrent connect(), ask() and close() calls.
AskCall == \E question \in Questions : AskCallWith(question, NoArgs)

Next ==
    \/ ConnectCall
    \/ AskCall
    \/ CloseCall
    \/ \E p \in Suspended : ConnectSettled(p)
    \/ \E p \in Suspended : AskResumed(p)
    \/ \E p \in Suspended : ToolCallDone(p)
    \/ \E p \in Suspended : CloseClientDone(p)
    \/ \E p \in Suspended : CloseTransportDone(p)
    \/ \E s \in 1..Len(seqs) : TransportConnected(s)
    \/ \E s \in 1..Len(seqs) : TransportFailed(s)
    \/ \E s \in 1..Len(seqs) : TeardownClientDone(s)
    \/ \E s \in 1..Len(seqs) : TeardownTransportDone(s)
    \/ \E s \in 1..Len(seqs) : SequenceRejected(s)
    \/ \E s \in 1..Len(seqs) : ToolsListed(s)
    \/ \E s \in 1..Len(seqs) : ListToolsFailed(s)

Spec == Init /\ [][Next]_vars

\* A connected client answering ask() calls: the static arguments, the
\* product filter, the discovered schema, the questions and the overrides
\* range over the sets below.
Map1(key, value) == [k \in {key} |-> value]
StaticArgSets == {NoArgs, Map1("product", <<>>), Map1("product", <<"S">>), Map1("query", <<"S">>)}
OverrideSets == {NoArgs, Map1("product", <<>>), Map1("product", <<"O">>), Map1("question", <<"O">>)}
FilterInputs == {<<>>, <<" ">>, <<" ", "F", " ">>}
ArgQuestions == {<<" ">>, <<"q">>, <<" ", "q", " ">>}
SchemaProduct == [type |-> "object", props |-> <<[name |-> "product", type |-> "string"]>>]
ArgSchemas == {SchemaQuestion, SchemaAmbiguous, SchemaProduct}

\* The client after a connect() that found the tool with the given schema
\* over the first transport.
ConnectedWith(schema) ==
    /\ client = HandleOf(1, 1)
    /\ transport = HandleOf(1, 1)
    /\ connectionLabel = Attempts[1].label
    /\ selectedTool = [name |-> DEFAULT_TOOL_NAME, inputSchema |-> schema]
    /\ primaryArgKey = (IF pickPrimaryArgument(schema) = NoKey THEN "query"
                        ELSE pickPrimaryArgument(schema))
    /\ connectPromise = 0
    /\ seqs = <<Fulfilled>>
    /\ factoryInvoked = {HandleOf(1, 1)}
    /\ attemptFailed = {}
    /\ attemptConnected = {HandleOf(1, 1)}
    /\ clientCloseCalled = {}
    /\ transportCloseCalled = {}
    /\ pending = EmptyBag
    /\ returned = NoReturn
    /\ calls = 1
    /\ NoRegistry

InitArgs ==
    /\ apiKey = TRUE
    /\ transportPreference = "auto"
    /\ staticArgs \in StaticArgSets
    /\ \E initialProduct \in FilterInputs : productFilter = NormalizeFilter(initialProduct)
    /\ \E schema \in ArgSchemas : ConnectedWith(schema)

AskCallArgs == \E question \in ArgQuestions, overrides \in OverrideSets : AskCallWith(question, overrides)
SetProductFilter == \E value \in FilterInputs \cup {Undefined} : setProductFilter(value)

NextArgs ==
    \/ AskCallArgs
    \/ \E p \in Suspended : ToolCallDone(p)
    \/ SetProductFilter

SpecArgs == InitArgs /\ [][NextArgs]_vars

\* A client with a credential under connect() calls, for every transport
\* preference: the recognised ones, the default and unrecognised values.
AllPreferences == {"auto", "sse", "streamable", "stdio", ""}

InitAnyPreference ==
    /\ apiKey = TRUE
    /\ transportPreference \in AllPreferences
    /\ staticArgs = NoArgs
    /\ productFilter = Null
    /\ Disconnected
    /\ seqs = <<>>
    /\ factoryInvoked = {}
    /\ attemptFailed = {}
    /\ attemptConnected = {}
    /\ clientCloseCalled = {}
    /\ transportCloseCalled = {}
    /\ pending = EmptyBag
    /\ returned = NoReturn
    /\ calls = 0
    /\ NoRegistry

NextConnect ==
    \/ ConnectCall
    \/ \E p \in Suspended : ConnectSettled(p)
    \/ \E s \in 1..Len(seqs) : TransportConnected(s)
    \/ \E s \in 1..Len(seqs) : TransportFailed(s)
    \/ \E s \in 1..Len(seqs) : TeardownClientDone(s)
    \/ \E s \in 1..Len(seqs) : TeardownTransportDone(s)
    \/ \E s \in 1..Len(seqs) : SequenceRejected(s)
    \/ \E s \in 1..Len(seqs) : ToolsListed(s)
    \/ \E s \in 1..Len(seqs) : ListToolsFailed(s)

SpecSelector == InitAnyPreference /\ [][NextConnect]_vars

\* A client with a credential connecting over a forced transport to a server
\* that lists the configured tool with any input schema of at most
\* MaxProps properties.
MaxProps == 2
PropNames == {"query", "question", "a", "b"}
PropTypes == {"string", "number"}
Property(name, type) == [name |-> name, type |-> type]
PropLists ==
    UNION { {props \in [1..n -> {Property(name, type) : name \in PropNames, type \in PropTypes}] :
                \A i \in 1..n, j \in 1..n : props[i].name = props[j].name => i = j}
            : n \in 0..MaxProps }
InferenceSchemas == {[type |-> "object", props |-> props] : props \in PropLists}
InferenceToolLists ==
    { <<[name |-> DEFAULT_TOOL_NAME, inputSchema |-> schema]>> : schema \in InferenceSchemas }

InitInference ==
    /\ apiKey = TRUE
    /\ transportPreference \in {"sse", "streamable"}
    /\ staticArgs = NoArgs
    /\ productFilter = Null
    /\ Disconnected
    /\ seqs = <<>>
    /\ factoryInvoked = {}
    /\ attemptFailed = {}
    /\ attemptConnected = {}
    /\ clientCloseCalled = {}
    /\ transportCloseCalled = {}
    /\ pending = EmptyBag
    /\ returned = NoReturn
    /\ calls = 0
    /\ NoRegistry

ToolsListedAny == \E s \in 1..Len(seqs) : ToolsListedFrom(s, InferenceToolLists)

NextInference ==
    \/ ConnectCall
    \/ \E p \in Suspended : ConnectSettled(p)
    \/ \E s \in 1..Len(seqs) : TransportConnected(s)
    \/ \E s \in 1..Len(seqs) : SequenceRejected(s)
    \/ ToolsListedAny

SpecInference == InitInference /\ [][NextInference]_vars

\* A client that is connected, closed and connected again, the server
\* listing the configured tool with a schema that names the key (question)
\* or with one from which no key can be inferred.
ReconnectToolLists ==
    { <<[name |-> DEFAULT_TOOL_NAME, inputSchema |-> SchemaQuestion]>>,
      <<[name |-> DEFAULT_TOOL_NAME, inputSchema |-> SchemaAmbiguous]>> }

ToolsListedReconnect == \E s \in 1..Len(seqs) : ToolsListedFrom(s, ReconnectToolLists)

NextReconnect ==
    \/ ConnectCall
    \/ CloseCall
    \/ \E p \in Suspended : ConnectSettled(p)
    \/ \E p \in Suspended : CloseClientDone(p)
    \/ \E p \in Suspended : CloseTransportDone(p)
    \/ \E s \in 1..Len(seqs) : TransportConnected(s)
    \/ \E s \in 1..Len(seqs) : SequenceRejected(s)
    \/ ToolsListedReconnect

SpecReconnect == InitInference /\ [][NextReconnect]_vars

\* One connect() on a fresh client and close() calls made while its attempt
\* sequence is in flight; no connect() or ask() is called afterwards.
ConnectFirst == calls = 0 /\ ConnectCall
CloseInFlight == RunningSeqs # {} /\ CloseCall

NextCloseRace ==
    \/ ConnectFirst
    \/ CloseInFlight
    \/ \E p \in Suspended : ConnectSettled(p)
    \/ \E p \in Suspended : CloseClientDone(p)
    \/ \E p \in Suspended : CloseTransportDone(p)
    \/ \E s \in 1..Len(seqs) : TransportConnected(s)
    \/ \E s \in 1..Len(seqs) : TransportFailed(s)
    \/ \E s \in 1..Len(seqs) : TeardownClientDone(s)
    \/ \E s \in 1..Len(seqs) : TeardownTransportDone(s)
    \/ \E s \in 1..Len(seqs) : SequenceRejected(s)
    \/ \E s \in 1..Len(seqs) : ToolsListed(s)
    \/ \E s \in 1..Len(seqs) : ListToolsFailed(s)

SpecCloseRace == Init /\ [][NextCloseRace]_vars

\* ---------------------------------------------- loadTargetsFromEnv
\* Number.prototype.toString for a natural number.
RECURSIVE NumberToString(_)
NumberToString(n) ==
    LET digits == <<"0", "1", "2", "3", "4", "5", "6", "7", "8", "9">>
    IN  IF n < 10 THEN <<digits[n + 1]>>
        ELSE NumberToString(n \div 10) \o <<digits[(n % 10) + 1]>>

\* `target-${index + 1}`, index counted from 0
GeneratedName(index) == <<"t", "a", "r", "g", "e", "t", "-">> \o NumberToString(index + 1)

\* An element of the parsed MCP_TARGETS array: an object with optional
\* name and product, or a value that is not an object.
Entry(name, product) == [object |-> TRUE, name |-> name, product |-> product]
NotAnObject == [object |-> FALSE, name |-> Undefined, product |-> Undefined]

\* A target: name, options.product and useProcessEnv.
Target(name, product, useProcessEnv) ==
    [name |-> name, product |-> product, useProcessEnv |-> useProcessEnv]
NoTarget == Target(Null, Undefined, FALSE)

\* normalizeTargetEntry(entry, index)
normalizeTargetEntry(entry, index) ==
    IF ~entry.object THEN NoTarget
    ELSE Target(IF Truthy(OptTrim(entry.name)) THEN Trim(entry.name) ELSE GeneratedName(index),
                entry.product, FALSE)

\* Array.prototype.filter(Boolean) on the normalised entries
RECURSIVE FilterTargets(_)
FilterTargets(list) ==
    IF list = <<>> THEN <<>>
    ELSE (IF Head(list) = NoTarget THEN <<>> ELSE <<Head(list)>>) \o FilterTargets(Tail(list))

DefaultTargets ==
    << Target(<<"D", "o", "c", "s", " ", "A", "I", " ", "H", "u", "b">>, Undefined, TRUE),
       Target(<<"C", "D", "E", "T", "s">>, Undefined, TRUE) >>

\* loadTargetsFromEnv() when MCP_TARGETS parses to the array parsed (an
\* absent or unparsable value gives the defaults, as the empty array does).
loadTargetsFromEnv(parsed) ==
    LET normalized == FilterTargets([i \in 1..Len(parsed) |-> normalizeTargetEntry(parsed[i], i - 1)])
    IN  IF normalized # <<>> THEN normalized ELSE DefaultTargets

\* ------------------------------------------------ ChatTargetManager
\* The largest MCP_TARGETS array considered.
MaxTargets == 2

Entries ==
    {NotAnObject, Entry(Undefined, <<"P">>), Entry(<<"A">>, Undefined), Entry(<<" ", "A">>, <<"P">>)}
ParsedArrays == UNION {[1..n -> Entries] : n \in 0..MaxTargets}

getTargetNames == {targets[i].name : i \in 1..Len(targets)}
hasTarget(name) == \E i \in 1..Len(targets) : targets[i].name = name

\* this.targets.find((t) => t.name === name): the first target of that name
FindTarget(name) ==
    targets[CHOOSE i \in 1..Len(targets) :
               /\ targets[i].name = name
               /\ \A j \in 1..(i - 1) : targets[j].name # name]

\* new McpChatClient({ ...target.options, useProcessEnv }): the fields the
\* registry reads afterwards (MCP_PRODUCT is not set in the environment).
NewInstance(target) ==
    [name |-> target.name, productFilter |-> NormalizeFilter(target.product),
     client |-> 0, selectedTool |-> FALSE, connectionLabel |-> "", closeCalls |-> 0]

\* The result of a registry call: for getClient the instance returned, or
\* NoInstance when it threw the unknown-target error.
NoRegReturn == [op |-> "none"]
RegReturn(op, name, result) == [op |-> op, name |-> name, result |-> result]
NoInstance == 0
ErrUnknownTarget == "Unknown target"

\* new ChatTargetManager(loadTargetsFromEnv())
InitRegistry ==
    /\ apiKey = TRUE
    /\ transportPreference = "auto"
    /\ staticArgs = NoArgs
    /\ productFilter = Null
    /\ Disconnected
    /\ seqs = <<>>
    /\ factoryInvoked = {}
    /\ attemptFailed = {}
    /\ attemptConnected = {}
    /\ clientCloseCalled = {}
    /\ transportCloseCalled = {}
    /\ pending = EmptyBag
    /\ returned = NoReturn
    /\ calls = 0
    /\ \E parsed \in ParsedArrays : targets = loadTargetsFromEnv(parsed)
    /\ clients = <<>>
    /\ defaultTargetName = targets[1].name
    /\ instances = <<>>
    /\ closing = EmptyBag
    /\ closeAllPc = "idle"
    /\ regReturned = NoRegReturn
    /\ NoFrontEnd

single == <<config, productFilter, session, seqs, history, pending, returned>>

\* this.clients.has(name)
NeverCached(name) == FALSE
HasClient(name) == name \in DOMAIN clients

\* getClient(targetName)
getClient(targetName) ==
    LET name == IF targetName = Undefined THEN defaultTargetName ELSE targetName
    IN  /\ calls < MaxCalls
        /\ calls' = calls + 1
        /\ IF ~hasTarget(name)
           THEN /\ regReturned' = RegReturn("getClient", name, NoInstance)
                /\ UNCHANGED <<clients, instances>>
           ELSE IF ~HasClient(name)
           THEN /\ instances' = Append(instances, NewInstance(FindTarget(name)))
                /\ clients' = [n \in DOMAIN clients \cup {name} |->
                                  IF n = name THEN Len(instances) + 1 ELSE clients[n]]
                /\ regReturned' = RegReturn("getClient", name, Len(instances) + 1)
           ELSE /\ regReturned' = RegReturn("getClient", name, clients[name])
                /\ UNCHANGED <<clients, instances>>
        /\ UNCHANGED <<targets, defaultTargetName, closing, closeAllPc, single, frontEnd>>

\* this.hasTarget(name) in setDefaultTarget
AnyTarget(name) == TRUE
KnownTarget(name) == hasTarget(name)

\* setDefaultTarget(name)
setDefaultTarget(name) ==
    /\ calls < MaxCalls
    /\ calls' = calls + 1
    /\ IF ~KnownTarget(name)
       THEN /\ regReturned' = RegReturn("setDefaultTarget", name, ErrUnknownTarget)
            /\ UNCHANGED defaultTargetName
       ELSE /\ defaultTargetName' = name
            /\ regReturned' = RegReturn("setDefaultTarget", name, Ok)
    /\ UNCHANGED <<targets, clients, instances, closing, closeAllPc, single, frontEnd>>


\* getTargetSummary(name): the object returned (null for an unknown name)
NoSummary == [name |-> Null, productFilter |-> Null, connected |-> FALSE, connectionLabel |-> ""]
Summary(name) ==
    IF ~hasTarget(name) THEN NoSummary
    ELSE LET target == FindTarget(name)
             cached == HasClient(name)
             filter == IF cached THEN instances[clients[name]].productFilter ELSE Undefined
         IN  [name |-> name,
              productFilter |-> IF filter \notin {Undefined, Null} THEN filter
                                ELSE IF target.product \notin {Undefined, Null} THEN target.product
                                ELSE Null,
              connected |-> IF cached THEN instances[clients[name]].client # 0 ELSE FALSE,
              connectionLabel |-> IF cached THEN instances[clients[name]].connectionLabel ELSE ""]

getTargetSummary(name) ==
    /\ regReturned' = RegReturn("getTargetSummary", name, Summary(name))
    /\ UNCHANGED <<targets, clients, defaultTargetName, instances, closing, closeAllPc, single, calls, frontEnd>>

\* connect() on an instance, taken as a whole with its outcome: connected
\* with the tool found, connected without the tool (the connection stays
\* stored), or no transport connected.
ConnectOutcomes == {"connected", "toolMissing", "failed"}
InstanceConnect(i, outcome) ==
    /\ calls < MaxCalls
    /\ calls' = calls + 1
    /\ instances[i].client = 0
    /\ instances' = [instances EXCEPT
                        ![i].client = IF outcome = "failed" THEN 0 ELSE 1,
                        ![i].connectionLabel = IF outcome = "failed" THEN @ ELSE LabelStreamable,
                        ![i].selectedTool = (outcome = "connected")]
    /\ regReturned' = NoRegReturn
    /\ UNCHANGED <<targets, clients, defaultTargetName, closing, closeAllPc, single, frontEnd>>

\* close() on an instance: lines 385-388
InstanceReset(inst) ==
    [inst EXCEPT !.client = 0, !.selectedTool = FALSE, !.connectionLabel = ""]

\* close() on an instance up to its first await: a connected instance has
\* close invoked on its handle and waits, any other is reset at once.
InstanceCloseCall(inst) ==
    IF inst.client # 0
    THEN [inst EXCEPT !.closeCalls = @ + 1]
    ELSE [InstanceReset(inst) EXCEPT !.closeCalls = @ + 1]

CachedInstances == {clients[n] : n \in DOMAIN clients}

\* closers of closeAll(): the close() calls that are suspended
Closers(cached) == SetToBag({[inst |-> i, pc |-> "closeClient"] : i \in {j \in cached : instances[j].client # 0}})

\* closeAll() up to await Promise.allSettled(closers)
closeAll ==
    /\ calls < MaxCalls
    /\ calls' = calls + 1
    /\ closeAllPc # "waiting"
    /\ instances' = [i \in 1..Len(instances) |->
                        IF i \in CachedInstances THEN InstanceCloseCall(instances[i])
                        ELSE instances[i]]
    /\ closing' = closing (+) Closers(CachedInstances)
    /\ closeAllPc' = "waiting"
    /\ regReturned' = NoRegReturn
    /\ UNCHANGED <<targets, clients, defaultTargetName, single, frontEnd>>

\* await this.client.close() settles in an instance's close(): the
\* transport's close is invoked.
InstanceClientClosed(c) ==
    /\ c.pc = "closeClient"
    /\ closing' = (closing (-) SetToBag({c})) (+) SetToBag({[c EXCEPT !.pc = "closeTransport"]})
    /\ regReturned' = NoRegReturn
    /\ UNCHANGED <<targets, clients, defaultTargetName, instances, closeAllPc, single, calls, frontEnd>>

\* await this.transport.close() settles: the instance is reset and its
\* close() resolves.
InstanceTransportClosed(c) ==
    /\ c.pc = "closeTransport"
    /\ closing' = closing (-) SetToBag({c})
    /\ instances' = [instances EXCEPT ![c.inst] = InstanceReset(@)]
    /\ regReturned' = NoRegReturn
    /\ UNCHANGED <<targets, clients, defaultTargetName, closeAllPc, single, calls, frontEnd>>

\* Promise.allSettled(closers) is settled
AnySettled == TRUE
AllSettled == closing = EmptyBag

\* closeAll() after its await: this.clients.clear()
CloseAllDone ==
    /\ closeAllPc = "waiting"
    /\ AllSettled
    /\ clients' = <<>>
    /\ closeAllPc' = "done"
    /\ regReturned' = RegReturn("closeAll", Undefined, Ok)
    /\ UNCHANGED <<targets, defaultTargetName, instances, closing, single, calls, frontEnd>>

\* The names callers pass: the registered ones, none, and an unknown one.
RequestNames == getTargetNames \cup {Undefined, <<"Z">>}

GetClient == \E targetName \in RequestNames : getClient(targetName)
SetDefaultTarget == \E name \in RequestNames \ {Undefined} : setDefaultTarget(name)
GetTargetSummary == \E name \in RequestNames \ {Undefined} : getTargetSummary(name)
Connect == \E i \in 1..Len(instances), outcome \in ConnectOutcomes : InstanceConnect(i, outcome)

NextRegistry ==
    \/ GetClient
    \/ SetDefaultTarget
    \/ GetTargetSummary
    \/ Connect
    \/ closeAll
    \/ \E c \in BagToSet(closing) : InstanceClientClosed(c)
    \/ \E c \in BagToSet(closing) : InstanceTransportClosed(c)
    \/ CloseAllDone

SpecRegistry == InitRegistry /\ [][NextRegistry]_vars

\* The continuation of closeAll() runs once its await is settled; whether
\* and when a handle's close settles is up to the handle.
SpecShutdown == SpecRegistry /\ WF_vars(CloseAllDone)

\* setProductFilter(value) on an instance of the registry
InstanceSetProductFilter(i, value) ==
    /\ instances' = [instances EXCEPT ![i].productFilter = NormalizeFilter(value)]
    /\ regReturned' = NoRegReturn
    /\ UNCHANGED <<targets, clients, defaultTargetName, closing, closeAllPc, single, calls, frontEnd>>

SetInstanceFilter ==
    \E i \in 1..Len(instances), value \in FilterInputs \cup {Undefined} :
        InstanceSetProductFilter(i, value)

\* The registry with the product filter of its clients being set and
\* cleared and their summaries being read.
NextFilter ==
    \/ GetClient
    \/ GetTargetSummary
    \/ SetInstanceFilter

SpecFilter == InitRegistry /\ [][NextFilter]_vars

\* ================================================== formatResultContent
\* A chunk of result.content: null, or an object with its type, text and
\* data fields (NoType and Undefined for an absent one, NotAString for a
\* text that is a number).
MaxChunks == 2
NoType == "#undefined"
NotAString == <<"#number">>
NullChunk == [isNull |-> TRUE, type |-> NoType, text |-> Undefined, hasData |-> FALSE]
Chunk(type, text, hasData) == [isNull |-> FALSE, type |-> type, text |-> text, hasData |-> hasData]
Chunks ==
    {NullChunk, Chunk(NoType, Undefined, FALSE), Chunk("image", Undefined, FALSE),
     Chunk("object", Undefined, FALSE), Chunk("object", Undefined, TRUE)}
    \cup {Chunk("text", t, FALSE) : t \in {Undefined, NotAString, <<" ">>, <<" ", "h">>}}

\* A tool result: missing (undefined), or an object with or without content.
MissingResult == [missing |-> TRUE, hasContent |-> FALSE, content |-> <<>>]
ResultWithout == [missing |-> FALSE, hasContent |-> FALSE, content |-> <<>>]
ResultWith(content) == [missing |-> FALSE, hasContent |-> TRUE, content |-> content]
ToolResults ==
    {MissingResult, ResultWithout}
    \cup {ResultWith(c) : c \in UNION {[1..n -> Chunks] : n \in 0..MaxChunks}}

\* One element of sections: what was pushed.  "text" carries the trimmed
\* text, "json" what JSON.stringify was given, "placeholder" the type that
\* was not rendered, "notice" the fixed sentence.
Section(kind, text) == [kind |-> kind, text |-> text]
TypeError == [threw |-> TRUE, sections |-> <<>>]
Returned(sections) == [threw |-> FALSE, sections |-> sections]

\* The for loop of formatResultContent from chunk i on
RECURSIVE FormatChunks(_, _, _)
FormatChunks(content, i, sections) ==
    IF i > Len(content) THEN Returned(sections)
    ELSE LET chunk == content[i]
         IN  IF chunk.isNull THEN TypeError               \* chunk.type of null
             ELSE IF chunk.type = "text"
             THEN IF chunk.text = NotAString THEN TypeError  \* trim is not a function
                  ELSE IF Truthy(OptTrim(chunk.text))
                  THEN FormatChunks(content, i + 1, Append(sections, Section("text", Trim(chunk.text))))
                  ELSE FormatChunks(content, i + 1, sections)
             ELSE IF chunk.type = "object"
             THEN FormatChunks(content, i + 1,
                               Append(sections, Section("json", IF chunk.hasData THEN <<"data">> ELSE <<"{", "}">>)))
             ELSE FormatChunks(content, i + 1, Append(sections, Section("placeholder", <<chunk.type>>)))

\* formatResultContent(result): the sections it joins with a blank line,
\* or the TypeError it throws.
formatResultContent(result) ==
    LET content == IF result.missing \/ ~result.hasContent THEN <<>> ELSE result.content
        looped == FormatChunks(content, 1, <<>>)
    IN  IF looped.threw \/ looped.sections # <<>> THEN looped
        ELSE Returned(<<Section("notice", <<>>),
                        Section("json", IF result.missing THEN <<"{", "}">> ELSE <<"result">>)>>)

\* ================================================== the interactive CLI
\* targetManager.getClient(name) for a registered name: the cache, the
\* instances and the instance returned.
ClientsWith(name) ==
    IF HasClient(name) THEN clients
    ELSE [n \in DOMAIN clients \cup {name} |-> IF n = name THEN Len(instances) + 1 ELSE clients[n]]
InstancesWith(name) ==
    IF HasClient(name) THEN instances ELSE Append(instances, NewInstance(FindTarget(name)))
IndexOf(name) == IF HasClient(name) THEN clients[name] ELSE Len(instances) + 1

\* connect() of an instance taken as a whole: nothing to do when it is
\* connected with its tool, else one of the outcomes.
Connected(inst) == inst.client # 0 /\ inst.selectedTool
AfterConnect(inst, outcome) ==
    IF inst.client # 0 THEN inst
    ELSE [inst EXCEPT !.client = IF outcome = "failed" THEN 0 ELSE 1,
                      !.connectionLabel = IF outcome = "failed" THEN @ ELSE LabelStreamable,
                      !.selectedTool = (outcome = "connected")]

\* The library state of a front end: the registry owns every client.
UnusedClient ==
    /\ apiKey = TRUE
    /\ transportPreference = "auto"
    /\ staticArgs = NoArgs
    /\ productFilter = Null
    /\ Disconnected
    /\ seqs = <<>>
    /\ factoryInvoked = {}
    /\ attemptFailed = {}
    /\ attemptConnected = {}
    /\ clientCloseCalled = {}
    /\ transportCloseCalled = {}
    /\ pending = EmptyBag
    /\ returned = NoReturn
    /\ calls = 0

EmptyRegistry ==
    /\ clients = <<>>
    /\ defaultTargetName = targets[1].name
    /\ instances = <<>>
    /\ closing = EmptyBag
    /\ closeAllPc = "idle"
    /\ regReturned = NoRegReturn

\* The CLI module is loaded: lines 641-643, with no --server option.
CliLoaded(parsed) ==
    /\ UnusedClient
    /\ targets = loadTargetsFromEnv(parsed)
    /\ EmptyRegistry
    /\ exited = FALSE
    /\ activeTarget = targets[1].name
    /\ cliPc = "bootstrap"
    /\ sigintPc = "none"
    /\ cliProduct = Undefined
    /\ requests = EmptyBag
    /\ output = NoOutput

InitCli == \E parsed \in ParsedArrays : CliLoaded(parsed)

\* targetManager.closeAll() up to its await, called by a front end
CloseAllCalled ==
    /\ instances' = [i \in 1..Len(instances) |->
                        IF i \in CachedInstances THEN InstanceCloseCall(instances[i])
                        ELSE instances[i]]
    /\ closing' = closing (+) Closers(CachedInstances)
    /\ closeAllPc' = "waiting"
    /\ regReturned' = NoRegReturn

\* bootstrap(): the client of the active target is built and connected;
\* on a failure cleanup() is awaited before process.exit(1).
CliBootstrap(outcome) ==
    /\ ~exited
    /\ cliPc = "bootstrap"
    /\ closeAllPc # "waiting"
    /\ LET i == IndexOf(activeTarget)
           built == [InstancesWith(activeTarget) EXCEPT ![i] = AfterConnect(@, outcome)]
       IN  IF outcome = "connected"
           THEN /\ instances' = built
                /\ clients' = ClientsWith(activeTarget)
                /\ cliPc' = "prompt"
                /\ output' = [kind |-> "ready"]
                /\ regReturned' = NoRegReturn
                /\ UNCHANGED <<closing, closeAllPc>>
           ELSE /\ clients' = ClientsWith(activeTarget)
                /\ instances' = [j \in 1..Len(built) |-> InstanceCloseCall(built[j])]
                /\ closing' = closing (+) SetToBag({[inst |-> j, pc |-> "closeClient"] :
                                                       j \in {k \in 1..Len(built) : built[k].client # 0}})
                /\ closeAllPc' = "waiting"
                /\ regReturned' = NoRegReturn
                /\ cliPc' = "cleanup"
                /\ output' = [kind |-> "unableToStart"]
    /\ UNCHANGED <<targets, defaultTargetName, single, calls,
                   exited, activeTarget, sigintPc, cliProduct, requests>>

\* await cleanup() settles after a failed bootstrap: process.exit(1)
CliCleanupDone ==
    /\ ~exited
    /\ cliPc = "cleanup"
    /\ closeAllPc = "done"
    /\ exited' = TRUE
    /\ UNCHANGED <<registry, single, calls, activeTarget, cliPc, sigintPc, cliProduct, requests, output>>

\* A line that is a question: ask(question) up to await client.ask(), whose
\* connect() is taken with its outcome.
CliQuestion(outcome) ==
    /\ ~exited
    /\ cliPc = "prompt"
    /\ calls < MaxCalls
    /\ calls' = calls + 1
    /\ LET i == IndexOf(activeTarget)
           built == [InstancesWith(activeTarget) EXCEPT ![i] = AfterConnect(@, outcome)]
       IN  /\ instances' = built
           /\ clients' = ClientsWith(activeTarget)
           /\ IF Connected(built[i])
              THEN /\ cliPc' = "asking"
                   /\ output' = NoOutput
              ELSE /\ cliPc' = "prompt"
                   /\ output' = [kind |-> "toolCallFailed"]
    /\ regReturned' = NoRegReturn
    /\ UNCHANGED <<targets, defaultTargetName, closing, closeAllPc, single,
                   exited, activeTarget, sigintPc, cliProduct, requests>>

\* The tool call of ask() resolves: printResult(result, activeTarget).  An
\* error thrown by formatResultContent is caught at line 669.
CliAnswer(result) ==
    /\ ~exited
    /\ cliPc = "asking"
    /\ cliPc' = "prompt"
    /\ output' = [kind |-> "printResult", formatted |-> formatResultContent(result)]
    /\ UNCHANGED <<registry, single, calls, exited, activeTarget, sigintPc, cliProduct, requests>>

\* The tool call of ask() rejects
CliAnswerFailed ==
    /\ ~exited
    /\ cliPc = "asking"
    /\ cliPc' = "prompt"
    /\ output' = [kind |-> "toolCallFailed"]
    /\ UNCHANGED <<registry, single, calls, exited, activeTarget, sigintPc, cliProduct, requests>>

\* /product <name> and /product clear
CliProduct(value) ==
    /\ ~exited
    /\ cliPc = "prompt"
    /\ calls < MaxCalls
    /\ calls' = calls + 1
    /\ instances' = [InstancesWith(activeTarget) EXCEPT
                        ![IndexOf(activeTarget)].productFilter = NormalizeFilter(value)]
    /\ clients' = ClientsWith(activeTarget)
    /\ output' = [kind |-> "productFilter"]
    /\ regReturned' = NoRegReturn
    /\ UNCHANGED <<targets, defaultTargetName, closing, closeAllPc, single,
                   exited, activeTarget, cliPc, sigintPc, cliProduct, requests>>

\* /server <name> and /target <name>
CliServer(nextTarget) ==
    /\ ~exited
    /\ cliPc = "prompt"
    /\ calls < MaxCalls
    /\ calls' = calls + 1
    /\ IF ~hasTarget(nextTarget)
       THEN /\ output' = [kind |-> "unknownTarget"]
            /\ UNCHANGED <<activeTarget, clients, instances>>
       ELSE /\ activeTarget' = nextTarget
            /\ instances' = InstancesWith(nextTarget)
            /\ clients' = ClientsWith(nextTarget)
            /\ output' = [kind |-> "switched"]
    /\ regReturned' = NoRegReturn
    /\ UNCHANGED <<targets, defaultTargetName, closing, closeAllPc, single,
                   exited, cliPc, sigintPc, cliProduct, requests>>

\* /exit and /quit: handleCommand calls process.exit(0)
CliExit ==
    /\ ~exited
    /\ cliPc = "prompt"
    /\ exited' = TRUE
    /\ UNCHANGED <<registry, single, calls, activeTarget, cliPc, sigintPc, cliProduct, requests, output>>

\* The SIGINT handler up to await cleanup()
Sigint ==
    /\ ~exited
    /\ sigintPc = "none"
    /\ closeAllPc # "waiting"
    /\ CloseAllCalled
    /\ sigintPc' = "waiting"
    /\ UNCHANGED <<targets, clients, defaultTargetName, single, calls,
                   exited, activeTarget, cliPc, cliProduct, requests, output>>

\* The SIGINT handler after await cleanup(): process.exit(0)
SigintExit ==
    /\ ~exited
    /\ sigintPc = "waiting"
    /\ closeAllPc = "done"
    /\ exited' = TRUE
    /\ UNCHANGED <<registry, single, calls, activeTarget, cliPc, sigintPc, cliProduct, requests, output>>

\* The steps of the close() calls and of closeAll() while the process runs
RunningClientClosed == ~exited /\ \E c \in BagToSet(closing) : InstanceClientClosed(c)
RunningTransportClosed == ~exited /\ \E c \in BagToSet(closing) : InstanceTransportClosed(c)
RunningCloseAllDone == ~exited /\ CloseAllDone

\* What the user types and what the tool answers
CliProducts == {<<>>, <<"F">>}
CliResults == {ResultWith(<<Chunk("text", <<" ", "h">>, FALSE)>>)}

NextCli ==
    \/ \E outcome \in ConnectOutcomes : CliBootstrap(outcome)
    \/ CliCleanupDone
    \/ \E outcome \in ConnectOutcomes : CliQuestion(outcome)
    \/ \E result \in CliResults : CliAnswer(result)
    \/ CliAnswerFailed
    \/ \E value \in CliProducts : CliProduct(value)
    \/ \E nextTarget \in RequestNames \ {Undefined} : CliServer(nextTarget)
    \/ CliExit
    \/ Sigint
    \/ SigintExit
    \/ RunningClientClosed
    \/ RunningTransportClosed
    \/ RunningCloseAllDone

SpecCli == InitCli /\ [][NextCli]_vars

\* The CLI answering questions, the tool returning every result
CliAnswerAny == \E result \in ToolResults : CliAnswer(result)
CliAskConnected == CliQuestion("connected")
CliStart == CliBootstrap("connected")
NextFormat ==
    \/ CliStart
    \/ CliAskConnected
    \/ CliAnswerAny

SpecFormat == InitCli /\ [][NextFormat]_vars

\* ================================================== the HTTP front end
\* Startup of the server, with no --target option: the first target gets
\* cliOptions.product when it has none of its own.
ServerTargets(parsed, product) ==
    LET loaded == loadTargetsFromEnv(parsed)
    IN  IF Truthy(product)
        THEN [loaded EXCEPT ![1].product = IF @ \in {Undefined, Null} THEN product ELSE @]
        ELSE loaded

CliOptionProducts == {Undefined, <<"C">>}

InitHttp ==
    /\ UnusedClient
    /\ \E parsed \in ParsedArrays, product \in CliOptionProducts :
          /\ cliProduct = product
          /\ targets = ServerTargets(parsed, product)
    /\ EmptyRegistry
    /\ exited = FALSE
    /\ activeTarget = Undefined
    /\ cliPc = "none"
    /\ sigintPc = "none"
    /\ requests = EmptyBag
    /\ output = NoOutput

\* respondJson(res, statusCode, ...)
Response(status) == [kind |-> "response", status |-> status]

\* A POST /api/ask body
Body(question, product, target) == [question |-> question, product |-> product, target |-> target]
BodyQuestions == {<<" ">>, <<"q">>}
BodyProducts == {Undefined, <<" ">>, <<" ", "R">>}

\* handleAsk(req, res) up to await client.connect()
handleAsk(body) ==
    LET product == OptTrim(body.product)
        requestedTarget == OptTrim(body.target)
        targetName == IF Truthy(requestedTarget) THEN requestedTarget ELSE defaultTargetName
        i == IndexOf(targetName)
        filter == IF Truthy(product) THEN NormalizeFilter(product)
                  ELSE IF Truthy(cliProduct) /\ targetName = defaultTargetName
                  THEN NormalizeFilter(cliProduct)
                  ELSE InstancesWith(targetName)[i].productFilter
    IN  /\ calls < MaxCalls
        /\ BagCardinality(requests) < NumCallers
        /\ calls' = calls + 1
        /\ IF Truthy(requestedTarget) /\ ~hasTarget(requestedTarget)
           THEN /\ output' = Response(400)
                /\ UNCHANGED <<clients, instances, requests>>
           ELSE IF ~Truthy(Trim(body.question))
           THEN /\ output' = Response(400)
                /\ UNCHANGED <<clients, instances, requests>>
           ELSE /\ clients' = ClientsWith(targetName)
                /\ instances' = [InstancesWith(targetName) EXCEPT ![i].productFilter = filter]
                /\ requests' = requests (+) SetToBag({[pc |-> "connect", target |-> targetName, inst |-> i,
                                                      question |-> body.question, product |-> product]})
                /\ output' = NoOutput
        /\ regReturned' = NoRegReturn
        /\ UNCHANGED <<targets, defaultTargetName, closing, closeAllPc, single,
                       exited, activeTarget, cliPc, sigintPc, cliProduct>>

\* await client.connect() settles in handleAsk: on success client.ask()
\* builds the arguments and calls the tool, on failure the answer is 500.
HttpConnected(r, outcome) ==
    /\ r.pc = "connect"
    /\ LET inst == AfterConnect(instances[r.inst], outcome)
           overrides == IF Truthy(r.product) THEN Map1("product", r.product) ELSE NoArgs
       IN  /\ instances' = [instances EXCEPT ![r.inst] = inst]
           /\ IF Connected(inst)
              THEN /\ requests' = (requests (-) SetToBag({r})) (+) SetToBag({[r EXCEPT !.pc = "callTool"]})
                   /\ output' = [kind |-> "callTool", target |-> r.target, question |-> r.question,
                                 supplied |-> Truthy(r.product),
                                 arguments |-> BuildArgs(NoArgs, overrides, "query", Trim(r.question),
                                                         inst.productFilter)]
              ELSE /\ requests' = requests (-) SetToBag({r})
                   /\ output' = Response(500)
    /\ regReturned' = NoRegReturn
    /\ UNCHANGED <<targets, clients, defaultTargetName, closing, closeAllPc, single, calls,
                   exited, activeTarget, cliPc, sigintPc, cliProduct>>

\* The tool call settles in handleAsk: the formatted answer, or 500 when
\* the call rejected or formatResultContent threw.
HttpAnswered(r, result, rejected) ==
    /\ r.pc = "callTool"
    /\ requests' = requests (-) SetToBag({r})
    /\ output' = IF rejected \/ formatResultContent(result).threw THEN Response(500) ELSE Response(200)
    /\ UNCHANGED <<registry, single, calls, exited, activeTarget, cliPc, sigintPc, cliProduct>>

HandleAsk ==
    \E question \in BodyQuestions, product \in BodyProducts, target \in RequestNames :
        handleAsk(Body(question, product, target))

NextHttp ==
    \/ HandleAsk
    \/ \E r \in BagToSet(requests), outcome \in ConnectOutcomes : HttpConnected(r, outcome)
    \/ \E r \in BagToSet(requests), rejected \in BOOLEAN : HttpAnswered(r, MissingResult, rejected)

SpecHttp == InitHttp /\ [][NextHttp]_vars

\* ============================================================== claims
SeqIds == 1..Len(seqs)
AttemptIds == 1..Len(Attempts)
ErrorOf(h) == (CHOOSE f \in attemptFailed : f.h = h).error
FactoryThrew(h) == \E f \in attemptFailed : f.h = h /\ f.error = FactoryError(AttemptOfHandle(h))
AllAttemptsFailed(s) == \A k \in AttemptIds : HandleOf(s, k) \in FailedHandles
IsBlank(q) == q = Undefined \/ \A i \in 1..Len(q) : IsSpace(q[i])
ConnectFailures ==
    {ErrToolMissing, ErrListTools, ErrAllFailed, ErrNoAttempts,
     ConnectError(1), ConnectError(2), FactoryError(1), FactoryError(2)}

\* C1: a connect() call made while an attempt sequence is in flight (tool
\* listing included) returns with the outcome of that sequence: it returns
\* only once the sequence has settled, resolving if it was fulfilled and
\* rejecting with its error if it was rejected.
C1_SingleFlightOutcome ==
    (returned.op = "connect" /\ returned.joined # 0)
        => /\ Settled(returned.joined)
           /\ returned.result = seqs[returned.joined].outcome

C3_ToolMissingLeavesDisconnected ==
    (returned.op = "connect" /\ returned.result = ErrToolMissing)
        => (~isConnected /\ getConnectionLabel = "" /\ transport = 0)

\* C4: when the last attempt sequence was rejected by a connection-time
\* failure and none is running, the next connect() or ask(question) starts
\* a fresh attempt sequence.
C4_RetryAfterFailure ==
    [][ ( /\ Len(seqs) > 0
          /\ seqs[Len(seqs)].pc = "rejected"
          /\ seqs[Len(seqs)].outcome \in ConnectFailures
          /\ (ConnectCall \/ \E q \in Questions : ~IsBlank(q) /\ AskCallWith(q, NoArgs)) )
        => Len(seqs') = Len(seqs) + 1 ]_vars

\* C5: when every attempt of a sequence has failed, the sequence rejects
\* with the error raised by the last attempt and leaves the client
\* Disconnected: no connection, empty label, connectPromise cleared.
C5_AllTransportsFailed ==
    [][ \A s \in SeqIds :
          (seqs[s].pc = "failed" /\ AllAttemptsFailed(s) /\ seqs'[s].pc = "rejected")
             => /\ seqs'[s].outcome = ErrorOf(HandleOf(s, Len(Attempts)))
                /\ ~isConnected'
                /\ getConnectionLabel' = ""
                /\ connectPromise' = 0 ]_vars

\* Both attempts of the auto preference failed to connect and the sequence
\* was rejected with the second attempt's error.
C5_Witness ==
    /\ Len(Attempts) = 2
    /\ Len(seqs) >= 1
    /\ seqs[1] = Rejected(ConnectError(2))
    /\ AllAttemptsFailed(1)
    /\ returned.op = "connect" /\ returned.result = ConnectError(2)
    /\ ~isConnected

\* C6: attempts are tried in list order, one at a time: the factory of
\* attempt k+1 is invoked only after attempt k failed and close was invoked
\* on its client and on its transport; at most one attempt of a sequence
\* connects, no factory after it is invoked, and the stored label is the
\* label of the attempt that connected.
C6_FallbackOrdering ==
    /\ \A s \in SeqIds : \A k \in AttemptIds :
          (k > 1 /\ HandleOf(s, k) \in factoryInvoked)
             => /\ HandleOf(s, k - 1) \in factoryInvoked
                /\ HandleOf(s, k - 1) \in FailedHandles
                /\ HandleOf(s, k - 1) \in clientCloseCalled
                /\ HandleOf(s, k - 1) \in transportCloseCalled
    /\ \A h \in attemptConnected :
          /\ h \notin FailedHandles
          /\ \A k \in AttemptIds :
                k > AttemptOfHandle(h) => HandleOf(SeqOfHandle(h), k) \notin factoryInvoked
    /\ isConnected => /\ client \in attemptConnected
                      /\ getConnectionLabel = Attempts[AttemptOfHandle(client)].label

\* The first attempt failed and was torn down, the second connected and
\* its label is stored.
C6_Witness ==
    /\ isConnected
    /\ AttemptOfHandle(client) = 2
    /\ getConnectionLabel = LabelSse
    /\ HandleOf(SeqOfHandle(client), 1) \in transportCloseCalled
    /\ returned.op = "connect" /\ returned.result = Ok

\* C7: a transport factory that throws fails its attempt only: the attempt
\* is torn down and the sequence does not settle before the next attempt's
\* factory has been invoked.
C7_FactoryFailureIsAttemptFailure ==
    \A s \in SeqIds : \A k \in AttemptIds :
        (FactoryThrew(HandleOf(s, k)) /\ k < Len(Attempts) /\ Settled(s))
            => /\ HandleOf(s, k + 1) \in factoryInvoked
               /\ HandleOf(s, k) \in clientCloseCalled

\* C8: an ask(question) made while the client is not connected or an
\* attempt sequence is in flight returns only after that sequence settled:
\* with the sequence's error and no tool call if it was rejected, after
\* exactly one tool call if it was fulfilled.
C8_AskWaitsForConnection ==
    (returned.op = "ask" /\ returned.joined # 0 /\ returned.result # ErrEmptyQuestion)
        => /\ Settled(returned.joined)
           /\ IF seqs[returned.joined].outcome = Ok
              THEN returned.invoked = 1
              ELSE returned.invoked = 0 /\ returned.result = seqs[returned.joined].outcome

\* C9: ask() with a missing, empty or whitespace-only question rejects with
\* the empty-question error and changes nothing: no attempt sequence, no
\* tool call, no field of the client.
C9_EmptyQuestionRejected ==
    [][ \A q \in Questions :
          (IsBlank(q) /\ AskCallWith(q, NoArgs))
             => /\ returned' = Return("ask", InFlightSeq, 0, ErrEmptyQuestion)
                /\ UNCHANGED <<config, productFilter, session, seqs, history, pending>> ]_vars

\* An empty question was rejected while an attempt sequence was running.
C9_Witness ==
    /\ returned.op = "ask"
    /\ returned.result = ErrEmptyQuestion
    /\ RunningSeqs # {}
    /\ isConnected

\* t is q without its leading and trailing white space (q not blank).
IsTrimOf(t, q) ==
    \E i \in 1..Len(q), j \in 1..Len(q) :
        /\ t = SubSeq(q, i, j)
        /\ ~IsSpace(q[i])
        /\ ~IsSpace(q[j])
        /\ \A n \in 1..Len(q) : (n < i \/ n > j) => IsSpace(q[n])

\* args is static overridden by ov, then key set to the trimmed question q,
\* then product set to the filter when a filter is set and blocked is false.
MergedAs(args, static, ov, key, q, filter, blocked) ==
    LET addProduct == filter # Null /\ ~blocked
    IN  /\ DOMAIN args = (DOMAIN static) \cup (DOMAIN ov) \cup {key}
                            \cup (IF addProduct THEN {"product"} ELSE {})
        /\ \A k \in DOMAIN args :
              IF k = "product" /\ addProduct THEN args[k] = filter
              ELSE IF k = key THEN IsTrimOf(args[k], q)
              ELSE IF k \in DOMAIN ov THEN args[k] = ov[k]
              ELSE args[k] = static[k]

\* An argument named product is present before the filter is applied.
ProductPresent(static, ov, key) == "product" \in (DOMAIN static) \cup (DOMAIN ov) \cup {key}

\* An argument named product with a non-empty value is present before the
\* filter is applied.
ProductNonEmpty(static, ov, key) ==
    \/ key = "product"
    \/ "product" \in DOMAIN ov /\ Truthy(ov["product"])
    \/ "product" \notin DOMAIN ov /\ "product" \in DOMAIN static /\ Truthy(static["product"])

\* The call ask(q, ov) on the connected client suspended at callTool with
\* arguments args.
AskSent(q, ov, args) ==
    /\ AskCallWith(q, ov)
    /\ \E p \in BagToSet(pending') :
          p.pc = "callTool" /\ p.args = args /\ pending' = Suspend(pending, p)

\* C10 as claimed: ask() sends the static arguments overridden by the
\* overrides, the primary key set to the trimmed question, and product set
\* to the filter only if a filter is set and no argument named product is
\* present, whatever its value.
C10_ArgsProductByPresence ==
    [][ \A q \in ArgQuestions, ov \in OverrideSets :
          (AskCallWith(q, ov) /\ ~IsBlank(q) /\ isConnected)
             => \E p \in BagToSet(pending') :
                   /\ AskSent(q, ov, p.args)
                   /\ MergedAs(p.args, staticArgs, ov, primaryArgKey, q, productFilter,
                               ProductPresent(staticArgs, ov, primaryArgKey)) ]_vars

\* C10 amended: as claimed, except that product is set to the filter if a
\* filter is set and no argument named product with a non-empty value is
\* present: a product argument that is present but empty is replaced.
C10_ArgsProductByValue ==
    [][ \A q \in ArgQuestions, ov \in OverrideSets :
          (AskCallWith(q, ov) /\ ~IsBlank(q) /\ isConnected)
             => \E p \in BagToSet(pending') :
                   /\ AskSent(q, ov, p.args)
                   /\ MergedAs(p.args, staticArgs, ov, primaryArgKey, q, productFilter,
                               ProductNonEmpty(staticArgs, ov, primaryArgKey)) ]_vars

\* An ask() whose overrides carry an empty product was sent with the
\* filter as product, and one whose overrides carry a product kept it.
C10_Witness ==
    /\ productFilter = <<"F">>
    /\ \E p \in Suspended :
          /\ p.pc = "callTool"
          /\ p.overrides = Map1("product", <<>>)
          /\ p.args["product"] = <<"F">>
    /\ \E p \in Suspended :
          /\ p.pc = "callTool"
          /\ p.overrides = Map1("product", <<"O">>)
          /\ p.args["product"] = <<"O">>

\* The filter f is unset or a non-empty string that neither starts nor ends
\* with white space.
IsFilterValue(f) ==
    \/ f = Null
    \/ /\ f \notin {Undefined, <<>>}
       /\ ~IsSpace(f[1])
       /\ ~IsSpace(f[Len(f)])

\* C11: the stored product filter is always unset (null) or a non-empty
\* string without leading or trailing white space; setProductFilter stores
\* the trimmed value, and an empty, whitespace-only or absent value clears
\* the filter to unset.
C11_FilterTrimmedOrUnset ==
    /\ [] IsFilterValue(getProductFilter)
    /\ [][ \A value \in FilterInputs \cup {Undefined} :
             setProductFilter(value)
                => IF IsBlank(value)
                   THEN getProductFilter' = Null
                   ELSE IsTrimOf(getProductFilter', value) ]_vars

\* A filter given with surrounding white space is stored trimmed and sent
\* by ask() as the product.
C11_Witness ==
    /\ getProductFilter = <<"F">>
    /\ \E p \in Suspended :
          p.pc = "callTool" /\ "product" \in DOMAIN p.args /\ p.args["product"] = <<"F">>
          /\ p.overrides = NoArgs

\* C12: close() never rejects and every return of close() leaves no
\* connection, no transport, no selected tool and an empty label; close()
\* invokes close on the stored client handle and then, whatever the outcome
\* of that close, on the stored transport handle; on a client that holds
\* neither, close() invokes nothing and changes nothing.
C12_CloseBestEffort ==
    [][ /\ (returned'.op = "close")
             => /\ returned'.result = Ok
                /\ ~isConnected' /\ transport' = 0
                /\ selectedTool' = NoTool /\ getConnectionLabel' = ""
        /\ (CloseCall /\ isConnected) => client \in clientCloseCalled'
        /\ \A p \in Suspended :
              (CloseClientDone(p) /\ transport # 0)
                 => /\ transport \in transportCloseCalled'
                    /\ \E q \in BagToSet(pending') : q.pc = "closeTransport"
        /\ (CloseCall /\ ~isConnected /\ transport = 0
                      /\ selectedTool = NoTool /\ getConnectionLabel = "")
             => /\ returned'.op = "close"
                /\ UNCHANGED <<session, seqs, history, pending>> ]_vars

\* close() returned on a connected client with no attempt sequence running:
\* close was invoked on the stored client and transport and nothing is kept.
C12_Witness ==
    /\ returned.op = "close"
    /\ returned.result = Ok
    /\ RunningSeqs = {}
    /\ \E h \in attemptConnected : h \in clientCloseCalled /\ h \in transportCloseCalled
    /\ ~isConnected
    /\ connectPromise = 0

\* C13: a connect() or ask() that fails with the missing-credential error
\* has done no connection work and leaves the client as constructed: no
\* transport factory invoked, no connection made or stored, Disconnected.
C13_MissingCredentialFailsEarly ==
    (returned.op \in {"connect", "ask"} /\ returned.result = ErrMissingKey)
        => /\ factoryInvoked = {}
           /\ attemptConnected = {}
           /\ Disconnected

\* The registry calls that return an instance.
ReturnedInstance == regReturned.op = "getClient" /\ regReturned.result # NoInstance

\* C14: until closeAll() is called, at most one instance is constructed per
\* target name, the cache maps each name to the instance of that name, and
\* every getClient(name) returns the cached instance of that name, whatever
\* was connected or failed in between and also for a name listed twice.
C14_OneClientPerName ==
    closeAllPc = "idle"
        => /\ \A i \in 1..Len(instances), j \in 1..Len(instances) :
                 instances[i].name = instances[j].name => i = j
           /\ \A n \in DOMAIN clients : instances[clients[n]].name = n
           /\ ReturnedInstance
                 => /\ HasClient(regReturned.name)
                    /\ regReturned.result = clients[regReturned.name]

\* getClient returned the one instance of a name that is listed twice, after
\* that instance had been built earlier and failed to connect or connected.
C14_Witness ==
    /\ closeAllPc = "idle"
    /\ Len(targets) = 2
    /\ targets[1].name = targets[2].name
    /\ ReturnedInstance
    /\ regReturned.result = 1
    /\ Len(instances) = 1
    /\ calls >= 3

\* C15: closeAll() calls close() on every cached instance before it waits,
\* resumes only when every one of these closes has settled, resolves, and
\* leaves the cache empty.
C15_CloseAllClosesEveryClient ==
    [][ /\ closeAll
             => /\ \A i \in CachedInstances :
                      instances'[i].closeCalls = instances[i].closeCalls + 1
                /\ closeAllPc' = "waiting"
        /\ CloseAllDone
             => /\ closing = EmptyBag
                /\ clients' = <<>>
                /\ regReturned' = RegReturn("closeAll", Undefined, Ok) ]_vars

\* closeAll() waits for the close of a connected instance after it has
\* called close() on both cached instances.
C15_Witness ==
    /\ closeAllPc = "waiting"
    /\ Cardinality(CachedInstances) = 2
    /\ \A i \in CachedInstances : instances[i].closeCalls = 1
    /\ \E i \in CachedInstances :
          /\ instances[i].client # 0
          /\ [inst |-> i, pc |-> "closeClient"] \in BagToSet(closing)

\* C16: once closeAll() has been called it eventually completes, also when
\* the close of a client or transport handle never settles.
C16_ShutdownTerminates == (closeAllPc = "waiting") ~> (closeAllPc = "done")

\* The registry state getTargetSummary must not touch.
registryState == <<targets, clients, defaultTargetName, instances, closing, closeAllPc>>

\* C17: getTargetSummary(name) changes nothing (no instance is built, no
\* connection attempted, cache, default and instances as before), and for
\* a registered target without a cached instance it reports connected
\* false, no product filter and an empty label.
C17_SummaryReadOnly ==
    [][ \A name \in RequestNames :
          getTargetSummary(name)
             => /\ UNCHANGED <<registryState, single, frontEnd>>
                /\ (hasTarget(name) /\ ~HasClient(name))
                      => /\ regReturned'.result.connected = FALSE
                         /\ regReturned'.result.productFilter = Null
                         /\ regReturned'.result.connectionLabel = "" ]_vars

\* C18: the default target is always a registered name: the first target's
\* name at construction; setDefaultTarget(name) replaces it by a registered
\* name and fails for an unknown name leaving it unchanged; either way the
\* cache and the instances are untouched.
C18_DefaultTargetRegistered ==
    /\ [](hasTarget(defaultTargetName))
    /\ [](calls = 0 => defaultTargetName = targets[1].name)
    /\ [][ \A name \in RequestNames :
             setDefaultTarget(name)
                => /\ IF hasTarget(name)
                      THEN /\ defaultTargetName' = name
                           /\ regReturned'.result = Ok
                      ELSE /\ defaultTargetName' = defaultTargetName
                           /\ regReturned'.result = ErrUnknownTarget
                   /\ UNCHANGED <<targets, clients, instances, closing, closeAllPc>> ]_vars

\* The default was moved to the second target while an instance was cached,
\* and a later setDefaultTarget with an unknown name failed.
C18_Witness ==
    /\ Len(targets) = 2
    /\ defaultTargetName = targets[2].name
    /\ targets[1].name # targets[2].name
    /\ regReturned = RegReturn("setDefaultTarget", <<"Z">>, ErrUnknownTarget)
    /\ DOMAIN clients # {}

\* C19: the names of the targets of a registry are pairwise distinct.
C19_TargetNamesDistinct ==
    \A i \in 1..Len(targets), j \in 1..Len(targets) :
        targets[i].name = targets[j].name => i = j

\* The attempts of a preference, as claimed.
ExpectedAttempts(pref) ==
    IF pref = "sse" THEN <<[label |-> LabelSse]>>
    ELSE IF pref = "streamable" THEN <<[label |-> LabelStreamable]>>
    ELSE <<[label |-> LabelStreamable], [label |-> LabelSse]>>

\* C20: the attempt list depends on the preference only: one attempt of the
\* forced transport for sse and for streamable, and for auto or any other
\* value streamable HTTP first and SSE second; it is never empty; connect()
\* invokes the factories of that list only and stores the label of the
\* attempt of that list that connected.
C20_SelectorByPreference ==
    /\ Attempts = ExpectedAttempts(transportPreference)
    /\ Attempts # <<>>
    /\ \A h \in factoryInvoked : AttemptOfHandle(h) <= Len(ExpectedAttempts(transportPreference))
    /\ isConnected
          => getConnectionLabel = ExpectedAttempts(transportPreference)[AttemptOfHandle(client)].label

\* With an unrecognised preference the streamable HTTP attempt failed and
\* connect() succeeded over SSE, the second attempt.
C20_Witness ==
    /\ transportPreference = "stdio"
    /\ returned.op = "connect" /\ returned.result = Ok
    /\ isConnected
    /\ AttemptOfHandle(client) = 2
    /\ getConnectionLabel = LabelSse
    /\ \E f \in attemptFailed : AttemptOfHandle(f.h) = 1

\* The names of the properties of a schema, and those of type string.
NamesOf(schema) == {schema.props[i].name : i \in 1..Len(schema.props)}
StringNamesOf(schema) ==
    {schema.props[i].name : i \in {j \in 1..Len(schema.props) : schema.props[j].type = "string"}}

\* The key the priority rule gives for a schema.
PriorityKey(schema) ==
    IF "query" \in NamesOf(schema) THEN "query"
    ELSE IF "question" \in NamesOf(schema) THEN "question"
    ELSE IF Cardinality(NamesOf(schema)) = 1 THEN CHOOSE n \in NamesOf(schema) : TRUE
    ELSE IF Cardinality(StringNamesOf(schema)) = 1 THEN CHOOSE n \in StringNamesOf(schema) : TRUE
    ELSE NoKey

C22_KeyFollowsDiscoveredSchema ==
    (returned.op = "connect" /\ returned.result = Ok /\ isConnected /\ selectedTool # NoTool)
        => primaryArgKey = (IF pickPrimaryArgument(selectedTool.inputSchema) = NoKey THEN "query"
                            ELSE pickPrimaryArgument(selectedTool.inputSchema))

\* C25: connectPromise is set only while the attempt sequence it holds is
\* running: once a sequence has settled, however it ended, the marker is
\* cleared.
C25_MarkerClearedWhenSettled ==
    connectPromise # 0 => Running(connectPromise)

\* C26: isConnected() is true only when the tool has been discovered, the
\* label is set and no attempt sequence is in flight; in particular it is
\* false when a connect() has just failed.
C26_ConnectedMeansToolDiscovered ==
    /\ isConnected => /\ selectedTool # NoTool
                      /\ getConnectionLabel # ""
                      /\ RunningSeqs = {}
    /\ (returned.op = "connect" /\ returned.result # Ok) => ~isConnected

\* Every call has returned and no attempt sequence is running.
Quiescent == pending = EmptyBag /\ RunningSeqs = {}

\* C27: when close() was called while the attempt sequence of a connect()
\* was in flight and no connect() or ask() was called afterwards, then once
\* everything has settled the client holds no connection, no selected tool
\* and an empty label, and close was invoked on the client and on the
\* transport of every connection the attempt opened.
C27_CloseDuringConnect ==
    (Quiescent /\ calls >= 2)
        => /\ ~isConnected
           /\ transport = 0
           /\ selectedTool = NoTool
           /\ getConnectionLabel = ""
           /\ \A h \in attemptConnected : h \in clientCloseCalled /\ h \in transportCloseCalled

\* C28: every instance the registry has built is in the cache or has had
\* close() called on it.
C28_NoClientDroppedUnclosed ==
    \A i \in 1..Len(instances) : i \in CachedInstances \/ instances[i].closeCalls > 0

\* C29: for a target whose client is in the cache, the productFilter of
\* getTargetSummary(name) is that client's getProductFilter(): the filter
\* when one is set, none when it is unset or was cleared.
C29_SummaryFilterIsClientFilter ==
    (regReturned.op = "getTargetSummary" /\ HasClient(regReturned.name))
        => regReturned.result.productFilter = instances[clients[regReturned.name]].productFilter

\* C23: when the interactive CLI has exited, close has been invoked on
\* every client that is connected.
C23_ExitClosesEveryClient ==
    (exited /\ cliPc # "none")
        => \A i \in 1..Len(instances) : instances[i].client # 0 => instances[i].closeCalls > 0

\* C24: formatResultContent returns a string for every result and never
\* throws.
C24_FormatNeverThrows ==
    output.kind = "printResult" => ~output.formatted.threw

\* The filter a target has when no request has carried a product: the
\* server-default product on the default target, else the configured one.
BaselineFilter(name) ==
    IF Truthy(cliProduct) /\ name = defaultTargetName THEN NormalizeFilter(cliProduct)
    ELSE NormalizeFilter(FindTarget(name).product)

\* C30: a request that supplies no product is sent to the tool with the
\* arguments it gets when no earlier request carried a product.
C30_ProductAppliesToOneRequest ==
    (output.kind = "callTool" /\ ~output.supplied)
        => output.arguments = BuildArgs(NoArgs, NoArgs, "query", Trim(output.question),
                                        BaselineFilter(output.target))

====
